---- MODULE Spec2Model ----
(***************************************************************************)
(* A model of src/Pulse_Shaping.py: make_transfer_func builds a closure    *)
(* full_transfer_func over a cubic spline of measured (frequency,          *)
(* response) samples, and shape_pulse divides the spectrum of a pulse by   *)
(* that transfer function where its magnitude exceeds scaling_limit.       *)
(*                                                                         *)
(* Numbers are exact.  A real number that the program handles as a float   *)
(* (a frequency, a time stamp, scaling_limit) is a rational <<p, q>>, q >  *)
(* 0, in lowest terms.  A complex number is the record                     *)
(*    [re, re3, im, im3, den]  =  ((re + re3*sqrt 3) + (im + im3*sqrt 3) i)*)
(*                                / den                                    *)
(* in lowest terms with den > 0; the sqrt 3 parts hold the roots of unity  *)
(* of a transform of 3 samples.  den = 0 is numpy's nan.                   *)
(***************************************************************************)
EXTENDS Integers, Sequences, FiniteSets

\* ------------------------------------------------------------- bounds
\* Sample frequencies are the integers 0..MaxFreq (in GHz).
MaxFreq == 2
\* A sweep has at most MaxSamples samples.
MaxSamples == 3

\* ------------------------------------------------ rational arithmetic
Abs(n) == IF n < 0 THEN -n ELSE n

RECURSIVE GCD(_, _)
GCD(a, b) == IF b = 0 THEN a ELSE GCD(b, a % b)

\* p/q in lowest terms with a positive denominator (q # 0)
RatBy(p, q, g) == <<p \div g, q \div g>>
Rat(p, q) ==
    IF q < 0 THEN RatBy(-p, -q, GCD(Abs(p), Abs(q)))
    ELSE RatBy(p, q, GCD(Abs(p), Abs(q)))

RSub(x, y) == Rat(x[1] * y[2] - y[1] * x[2], x[2] * y[2])
RMul(x, y) == Rat(x[1] * y[1], x[2] * y[2])
RDiv(x, y) == Rat(x[1] * y[2], x[2] * y[1])
RNeg(x) == <<-x[1], x[2]>>
RLt(x, y) == x[1] * y[2] < y[1] * x[2]
RInt(n) == <<n, 1>>

\* ------------------------------------------------- complex arithmetic
NaN == [re |-> 0, re3 |-> 0, im |-> 0, im3 |-> 0, den |-> 0]

\* ((a + b sqrt 3) + (c + d sqrt 3) i) / q in lowest terms
CxBy(a, b, c, d, q, g) ==
    [re |-> a \div g, re3 |-> b \div g, im |-> c \div g, im3 |-> d \div g,
     den |-> q \div g]
GCD5(a, b, c, d, q) ==
    GCD(GCD(GCD(GCD(Abs(q), Abs(a)), Abs(b)), Abs(c)), Abs(d))
Cx(a, b, c, d, q) ==
    IF q = 0 THEN NaN
    ELSE IF q < 0 THEN CxBy(-a, -b, -c, -d, -q, GCD5(a, b, c, d, q))
    ELSE CxBy(a, b, c, d, q, GCD5(a, b, c, d, q))

Zero == Cx(0, 0, 0, 0, 1)
One == Cx(1, 0, 0, 0, 1)
\* the complex number x + y i of two rationals
Complex(x, y) == Cx(x[1] * y[2], 0, y[1] * x[2], 0, x[2] * y[2])
CReal(x) == Complex(x, RInt(0))

\* the sum, over the least common denominator
\* z + w with z scaled by zf and w by wf to the common denominator l
CAddBy(z, w, zf, wf, l) ==
    Cx(z.re * zf + w.re * wf, z.re3 * zf + w.re3 * wf,
       z.im * zf + w.im * wf, z.im3 * zf + w.im3 * wf, l)
CAddOver(z, w, g) ==
    CAddBy(z, w, w.den \div g, z.den \div g, (z.den \div g) * w.den)
CAdd(z, w) ==
    IF z.den = 0 \/ w.den = 0 THEN NaN
    ELSE CAddOver(z, w, GCD(z.den, w.den))

\* (a + b s)(a' + b' s) = (aa' + 3bb') + (ab' + ba') s, s = sqrt 3
CMul(z, w) ==
    Cx(z.re * w.re + 3 * z.re3 * w.re3 - z.im * w.im - 3 * z.im3 * w.im3,
       z.re * w.re3 + z.re3 * w.re - z.im * w.im3 - z.im3 * w.im,
       z.re * w.im + 3 * z.re3 * w.im3 + z.im * w.re + 3 * z.im3 * w.re3,
       z.re * w.im3 + z.re3 * w.im + z.im * w.re3 + z.im3 * w.re,
       z.den * w.den)

\* z times the rational x
CScale(z, x) ==
    Cx(z.re * x[1], z.re3 * x[1], z.im * x[1], z.im3 * x[1], z.den * x[2])

\* np.conjugate
conjugate(z) == [z EXCEPT !.im = -z.im, !.im3 = -z.im3]

\* |z|^2 * den^2 = A + B sqrt 3
NormA(z) == z.re * z.re + 3 * z.re3 * z.re3 + z.im * z.im + 3 * z.im3 * z.im3
NormB(z) == 2 * z.re * z.re3 + 2 * z.im * z.im3

\* x + y sqrt 3 > 0
SurdPositive(x, y) ==
    IF x >= 0 /\ y >= 0 THEN x > 0 \/ y > 0
    ELSE IF x <= 0 /\ y <= 0 THEN FALSE
    ELSE IF x > 0 THEN x * x > 3 * y * y
    ELSE 3 * y * y > x * x

\* np.absolute(z) > x for a rational x; a comparison with nan is False
AbsGreater(z, x) ==
    IF z.den = 0 THEN FALSE
    ELSE IF x[1] < 0 THEN TRUE
    ELSE SurdPositive(NormA(z) * x[2] * x[2] - x[1] * x[1] * z.den * z.den,
                      NormB(z) * x[2] * x[2])

\* the complex quotient z / w: 1/w = conj(w) / |w|^2, and a division by
\* zero gives nan
\* 1/w of a w # 0 with |w|^2 * den^2 = A + B sqrt 3
InverseBy(w, A, B) ==
    IF B = 0
    THEN Cx(w.re * w.den, w.re3 * w.den, -w.im * w.den, -w.im3 * w.den, A)
    ELSE CMul(Cx(w.re * w.den, w.re3 * w.den, -w.im * w.den, -w.im3 * w.den, 1),
              Cx(A, -B, 0, 0, A * A - 3 * B * B))
CDivBy(z, w, A, B) ==
    IF A = 0 /\ B = 0 THEN NaN ELSE CMul(z, InverseBy(w, A, B))
CDiv(z, w) ==
    IF z.den = 0 \/ w.den = 0 THEN NaN ELSE CDivBy(z, w, NormA(w), NormB(w))

\* ------------------------------------------------- scipy CubicSpline
\* CubicSpline(x, y) raises ValueError unless x has at least 2 elements,
\* as many as y, and is strictly increasing.
\* (a faulty variant: it lets a repeated frequency through)
CubicSplineRaisesSloppy(x, y) ==
    \/ Len(x) < 2
    \/ Len(x) # Len(y)
    \/ \E i \in 1..(Len(x) - 1) : RLt(x[i + 1], x[i])

CubicSplineRaises(x, y) ==
    \/ Len(x) < 2
    \/ Len(x) # Len(y)
    \/ \E i \in 1..(Len(x) - 1) : ~RLt(x[i], x[i + 1])

RECURSIVE BasisTo(_, _, _, _)
\* the product over the knots m <= n, m # j, of (f - x[m]) / (x[j] - x[m])
BasisTo(x, j, f, n) ==
    IF n = 0 THEN RInt(1)
    ELSE IF n = j THEN BasisTo(x, j, f, n - 1)
    ELSE RMul(BasisTo(x, j, f, n - 1),
              RDiv(RSub(f, x[n]), RSub(x[j], x[n])))

\* the j-th Lagrange basis polynomial of the knots x at f
Basis(x, j, f) == BasisTo(x, j, f, Len(x))

RECURSIVE CSum(_, _)
\* the sum of g[1], ..., g[n]
CSum(g, n) == IF n = 0 THEN Zero ELSE CAdd(CSum(g, n - 1), g[n])

\* The value at f of the spline CubicSpline(x, y) (default boundary
\* condition, not-a-knot; extrapolating outside the knots).  With 2 knots
\* scipy fits the line, with 3 the parabola, and with 4 the two not-a-knot
\* conditions make the three pieces one cubic: up to 4 knots the spline is
\* the polynomial of degree < Len(x) through the samples.
SplineValue(x, y, f) ==
    CSum([j \in 1..Len(x) |-> CScale(y[j], Basis(x, j, f))], Len(x))

\* --------------------------------------------- make_transfer_func
\* upper_limit = swept_fs[-1], lower_limit = swept_fs[0]
LastFreq(fs) == fs[Len(fs)]
FirstFreq(fs) == fs[1]

\* negative = arr < 0
negative(f) == RLt(f, RInt(0))

\* out_of_bounds, for one element f of arr
\* (three faulty variants: without the gap around DC; with the gap's two
\* comparisons not joined, so that every f < lower_limit is out of bounds;
\* with the limits themselves out of bounds)
out_of_boundsUpperOnly(f, upper, lower) ==
    RLt(f, RNeg(upper)) \/ RLt(upper, f)

out_of_boundsOneSided(f, upper, lower) ==
    \/ RLt(f, RNeg(upper)) \/ RLt(upper, f)
    \/ RLt(f, lower)

out_of_boundsClosed(f, upper, lower) ==
    \/ ~RLt(RNeg(upper), f) \/ ~RLt(f, upper)
    \/ (~RLt(lower, f) /\ ~RLt(f, RNeg(lower)))

out_of_bounds(f, upper, lower) ==
    \/ RLt(f, RNeg(upper)) \/ RLt(upper, f)
    \/ (RLt(f, lower) /\ RLt(RNeg(lower), f))

\* one element of the array full_transfer_func returns
\* (a faulty variant: the mirrored value is not conjugated)
full_transfer_valueNoConjugate(tf, upper, lower, f) ==
    IF out_of_bounds(f, upper, lower) THEN Zero
    ELSE IF negative(f) THEN SplineValue(tf.x, tf.y, RNeg(f))
    ELSE SplineValue(tf.x, tf.y, f)

full_transfer_value(tf, upper, lower, f) ==
    IF out_of_bounds(f, upper, lower) THEN Zero
    ELSE IF negative(f) THEN conjugate(SplineValue(tf.x, tf.y, RNeg(f)))
    ELSE SplineValue(tf.x, tf.y, f)

\* full_transfer_func(arr), elementwise
full_transfer_func(tf, upper, lower, a) ==
    [i \in 1..Len(a) |-> full_transfer_value(tf, upper, lower, a[i])]

\* the tuple make_transfer_func returns
\* (a faulty variant: the limits in the other order)
ReturnLowerFirst(upper, lower) == <<"full_transfer_func", lower, upper>>

ReturnTuple(upper, lower) == <<"full_transfer_func", upper, lower>>

\* ------------------------------------------------------ scipy.fft
\* fftfreq(n, d): val = 1.0/(n*d); N = (n-1)//2 + 1; the bins 0..N-1 hold
\* 0, 1, ..., N-1 and the bins N..n-1 hold -(n//2), ..., -1, all times val.
fftfreqBy(n, val, N) ==
    [i \in 1..n |->
        IF i - 1 < N THEN RMul(RInt(i - 1), val)
        ELSE RMul(RInt(-(n \div 2) + (i - 1 - N)), val)]

\* (a faulty variant: N = n//2)
fftfreqFloor(n, d) ==
    fftfreqBy(n, RDiv(RInt(1), RMul(RInt(n), d)), n \div 2)

fftfreq(n, d) ==
    fftfreqBy(n, RDiv(RInt(1), RMul(RInt(n), d)), (n - 1) \div 2 + 1)

\* 2 cos(t * pi/6) as <<a, b>> = a + b sqrt 3, t in 0..11
Cos12(t) ==
    CASE t = 0 -> <<2, 0>>  [] t = 1 -> <<0, 1>>   [] t = 2 -> <<1, 0>>
      [] t = 3 -> <<0, 0>>  [] t = 4 -> <<-1, 0>>  [] t = 5 -> <<0, -1>>
      [] t = 6 -> <<-2, 0>> [] t = 7 -> <<0, -1>>  [] t = 8 -> <<-1, 0>>
      [] t = 9 -> <<0, 0>>  [] t = 10 -> <<1, 0>>  [] t = 11 -> <<0, 1>>

\* exp(2 pi i t / 12) = cos(t * pi/6) + i sin(t * pi/6), t in 0..11
Roots12 ==
    [t \in 0..11 |->
        Cx(Cos12(t)[1], Cos12(t)[2],
           Cos12((t + 9) % 12)[1], Cos12((t + 9) % 12)[2], 2)]

\* exp(2 pi i j / n) for an n that divides 12 and any integer j
RootOfUnity(n, j) == Roots12[((12 \div n) * j) % 12]

\* fft(x)[k] = sum over m of x[m] exp(-2 pi i k m / n)
fft(x) ==
    [i \in 1..Len(x) |->
        CSum([m \in 1..Len(x) |->
                 CMul(x[m], RootOfUnity(Len(x), -(i - 1) * (m - 1)))],
             Len(x))]

\* ifft(X)[m] = (1/n) sum over k of X[k] exp(2 pi i k m / n)
\* (a faulty variant: without the factor 1/n)
ifftUnscaled(X) ==
    [i \in 1..Len(X) |->
        CSum([k \in 1..Len(X) |->
                 CMul(X[k], RootOfUnity(Len(X), (i - 1) * (k - 1)))],
             Len(X))]

ifft(X) ==
    [i \in 1..Len(X) |->
        CScale(CSum([k \in 1..Len(X) |->
                        CMul(X[k], RootOfUnity(Len(X), (i - 1) * (k - 1)))],
                    Len(X)),
               <<1, Len(X)>>)]

\* ---------------------------------------------------- shape_pulse
\* where = (np.absolute(transfer_array) > scaling_limit), for one bin
\* (a faulty variant: >= for >)
whereAtLeast(h, limit) ==
    /\ h.den # 0
    /\ \/ limit[1] <= 0
       \/ ~SurdPositive(limit[1] * limit[1] * h.den * h.den
                           - NormA(h) * limit[2] * limit[2],
                        -(NormB(h) * limit[2] * limit[2]))

where(h, limit) == AbsGreater(h, limit)

\* np.divide(x1, x2, where = ..., out = zeros): a bin outside the mask
\* keeps the value of out, and no division takes place there
divide(x1, x2, limit) ==
    [i \in 1..Len(x2) |->
        IF where(x2[i], limit) THEN CDiv(x1[i], x2[i]) ELSE Zero]

\* Whether shape_pulse raises on a pulse of n samples and the time axis t:
\* dt = time_int[1] - time_int[0] raises IndexError on a time_int of fewer
\* than 2 elements, and nothing else reads time_int
\* (a variant that rejects a time axis of another length than the pulse)
shape_pulseRaisesOnMismatch(n, t) == Len(t) # n

shape_pulseRaises(n, t) == Len(t) < 2

\* ---------------------------------------------------------- inputs
\* sample frequencies, in GHz
Freqs == {RInt(n) : n \in 0..MaxFreq}
\* sample responses: 1, 0.5, 0.01 and the non-real 0.5 + 0.5i
Responses == {One, CReal(<<1, 2>>), CReal(<<1, 100>>), Complex(<<1, 2>>, <<1, 2>>)}
\* every sequence of at most MaxSamples frequencies, in any order
SweptFs == UNION {[1..n -> Freqs] : n \in 0..MaxSamples}
\* the frequencies a caller queries: the halves from -(MaxFreq+1) to MaxFreq+1
QueryFreqs == {Rat(q, 2) : q \in (-(2 * MaxFreq + 2))..(2 * MaxFreq + 2)}
\* the lengths of a pulse (the transform's roots of unity are exact for these)
PulseLens == {2, 3, 4}
PulseValues == {Zero, One}
\* the time a pulse spans, in ns: the spacing of a pulse of n samples is
\* the n-th part of it, so that the bins fall on whole GHz
Windows == {<<1, 1>>, <<1, 2>>}
\* uniform time axes starting at 0, for a pulse of n samples: a lone stamp,
\* two stamps, or as many stamps as the pulse has samples
TimeAxes(n) ==
    {[i \in 1..m |-> RMul(RInt(i - 1), RDiv(w, RInt(n)))] :
        m \in {1, 2, n}, w \in Windows}
\* scaling_limit: the default 0.1, and 0.5
ScalingLimits == {<<1, 10>>, <<1, 2>>}

\* ----------------------------------------------------------- state
None == <<>>

VARIABLES
    pc,              \* where the caller is: "start"; after
                     \* make_transfer_func "built" (it holds the closure)
                     \* or "failed"; after a call on the closure
                     \* "evaluated" or "shaped"
    raised,          \* the exception the last call ended in, "" when it returned
    s21, swept_fs,   \* the arguments of make_transfer_func
    transfer_func,   \* the spline of the closure: its knots x and values y
    upper_limit,     \* the closure's upper_limit
    lower_limit,     \* the closure's lower_limit
    made,            \* the tuple make_transfer_func returned
    arr, answer,     \* the argument and the result of full_transfer_func
    pulse, time_int, scaling_limit,  \* the arguments of shape_pulse
    freqs,           \* shape_pulse's freqs
    transfer_array,  \* shape_pulse's transfer_array
    spectrum,        \* the array np.divide returns: the shaped spectrum
    shaped_pulse     \* the array shape_pulse returns

closure == <<transfer_func, upper_limit, lower_limit>>
makeVars == <<s21, swept_fs, made>>
evalVars == <<arr, answer>>
shapeVars == <<pulse, time_int, scaling_limit, freqs, transfer_array,
               spectrum, shaped_pulse>>
vars == <<pc, raised, closure, makeVars, evalVars, shapeVars>>

Init ==
    /\ pc = "start" /\ raised = ""
    /\ s21 = None /\ swept_fs = None /\ made = None
    /\ transfer_func = None /\ upper_limit = None /\ lower_limit = None
    /\ arr = None /\ answer = None
    /\ pulse = None /\ time_int = None /\ scaling_limit = None
    /\ freqs = None /\ transfer_array = None
    /\ spectrum = None /\ shaped_pulse = None

\* make_transfer_func(s21, swept_fs)
MakeTransferFunc ==
    /\ pc = "start"
    /\ \E fs \in SweptFs : \E y \in [1..Len(fs) -> Responses] :
        /\ s21' = y /\ swept_fs' = fs
        /\ IF CubicSplineRaises(fs, y)
           THEN /\ pc' = "failed"
                /\ raised' = "ValueError"
                /\ transfer_func' = None
                /\ upper_limit' = None /\ lower_limit' = None
                /\ made' = None
           ELSE /\ pc' = "built"
                /\ raised' = ""
                /\ transfer_func' = [x |-> fs, y |-> y]
                /\ upper_limit' = LastFreq(fs)
                /\ lower_limit' = FirstFreq(fs)
                /\ made' = ReturnTuple(LastFreq(fs), FirstFreq(fs))
        /\ UNCHANGED <<evalVars, shapeVars>>

\* full_transfer_func(arr), on the closure make_transfer_func returned
FullTransferFunc ==
    /\ pc = "built"
    /\ \E f \in QueryFreqs :
        /\ pc' = "evaluated" /\ raised' = ""
        /\ arr' = <<f>>
        /\ answer' = full_transfer_func(transfer_func, upper_limit,
                                        lower_limit, <<f>>)
        /\ UNCHANGED <<closure, makeVars, shapeVars>>

\* shape_pulse, local by local: fr is freqs, ta is transfer_array, X is
\* fft(pulse) and sp is the array np.divide returns.  Each is handed on as an
\* argument, which is evaluated once.
ShapeReturn(p, t, limit, fr, ta, sp) ==
    /\ pc' = "shaped" /\ raised' = ""
    /\ pulse' = p /\ time_int' = t /\ scaling_limit' = limit
    /\ freqs' = fr
    /\ transfer_array' = ta
    /\ spectrum' = sp
    /\ shaped_pulse' = ifft(sp)
    /\ UNCHANGED <<closure, makeVars, evalVars>>

\* line 88 raises: shape_pulse ends in an IndexError
ShapeRaise(p, t, limit) ==
    /\ pc' = "shaped" /\ raised' = "IndexError"
    /\ pulse' = p /\ time_int' = t /\ scaling_limit' = limit
    /\ freqs' = None /\ transfer_array' = None
    /\ spectrum' = None /\ shaped_pulse' = None
    /\ UNCHANGED <<closure, makeVars, evalVars>>

ShapeDivide(p, t, fr, ta, X) ==
    \E limit \in ScalingLimits :
        ShapeReturn(p, t, limit, fr, ta, divide(X, ta, limit))

ShapeTransfer(n, t, fr, ta) ==
    \E p \in [1..n -> PulseValues] : ShapeDivide(p, t, fr, ta, fft(p))

ShapeFreqs(n, t, fr) ==
    ShapeTransfer(n, t, fr, full_transfer_func(transfer_func, upper_limit,
                                               lower_limit, fr))

\* shape_pulse(pulse, time_int, full_transfer_func, scaling_limit), on a
\* pulse of n samples and the closure the caller holds
ShapePulse ==
    /\ pc = "built"
    /\ \E n \in PulseLens : \E t \in TimeAxes(n) :
        IF shape_pulseRaises(n, t)
        THEN \E p \in [1..n -> PulseValues] : \E limit \in ScalingLimits :
                ShapeRaise(p, t, limit)
        ELSE ShapeFreqs(n, t, fftfreq(n, RSub(t[2], t[1])))

\* The two calls on the closure change nothing the closure holds, so a
\* behaviour is one make_transfer_func call and then one call on its result.
Next ==
    \/ MakeTransferFunc
    \/ FullTransferFunc
    \/ ShapePulse

Spec == Init /\ [][Next]_vars

\* ------------------------------------------------------ properties
RAbs(x) == <<Abs(x[1]), x[2]>>
RLe(x, y) == ~RLt(y, x)
IsReal(z) == z.im = 0 /\ z.im3 = 0
Evaluated == pc = "evaluated"
Shaped == pc = "shaped" /\ raised = ""
\* evaluate(f) on the closure the caller holds
Evaluate(f) == full_transfer_value(transfer_func, upper_limit, lower_limit, f)
\* f lies outside the measured band: above it, or in the gap around DC
OutOfBand(f) == RLt(upper_limit, RAbs(f)) \/ RLt(RAbs(f), lower_limit)
InBand(f) == RLe(lower_limit, RAbs(f)) /\ RLe(RAbs(f), upper_limit)
\* the spectrum of the pulse of the last shape_pulse call
P == fft(pulse)
Bins == 1..Len(pulse)

\* C1: evaluate returns exactly 0 for every f with |f| > upper_limit and for
\* every f strictly inside (-lower_limit, lower_limit), whatever the spline
\* or the conjugated spline gives there; so do the gains shape_pulse reads.
C1_OutOfBandZero ==
    /\ Evaluated /\ OutOfBand(arr[1]) => answer[1] = Zero
    /\ Shaped => \A k \in Bins : OutOfBand(freqs[k]) => transfer_array[k] = Zero

\* C1 happens: a negative frequency in the gap around DC of a sweep that
\* starts above 0 evaluates to 0 although the conjugated spline is not 0.
C1_Witness ==
    /\ Evaluated
    /\ RLt(RInt(0), lower_limit)
    /\ RLt(arr[1], RInt(0)) /\ RLt(RNeg(lower_limit), arr[1])
    /\ conjugate(SplineValue(transfer_func.x, transfer_func.y, RNeg(arr[1]))) # Zero
    /\ answer[1] = Zero

\* C2 as claimed: for every f in [-upper_limit, upper_limit], f = 0 and a
\* non-real DC sample included, evaluate(-f) is the conjugate of evaluate(f).
C2_Original ==
    Evaluated /\ RLe(RAbs(arr[1]), upper_limit)
        => Evaluate(RNeg(arr[1])) = conjugate(answer[1])

\* C2 amended: for every f in [-upper_limit, upper_limit] other than 0,
\* evaluate(-f) is the conjugate of evaluate(f), and two bins of shape_pulse
\* at opposite non-zero frequencies hold conjugate gains; at f = 0 evaluate
\* returns the DC sample itself (0 when the sweep starts above 0), so the
\* equality holds there exactly when that value is real.
C2_ConjugateSymmetry ==
    /\ Evaluated /\ RLe(RAbs(arr[1]), upper_limit) /\ arr[1] # RInt(0)
        => Evaluate(RNeg(arr[1])) = conjugate(answer[1])
    /\ Evaluated /\ arr[1] = RInt(0)
        => /\ answer[1] = IF RLt(RInt(0), lower_limit) THEN Zero ELSE s21[1]
           /\ (Evaluate(RNeg(arr[1])) = conjugate(answer[1])) <=> IsReal(answer[1])
    /\ Shaped
        => \A j, k \in Bins :
              freqs[j] = RNeg(freqs[k]) /\ freqs[k] # RInt(0)
                  => transfer_array[j] = conjugate(transfer_array[k])

\* C2 happens: a negative in-band frequency with a non-real value.
C2_Witness ==
    /\ Evaluated
    /\ RLt(arr[1], RInt(0)) /\ InBand(arr[1])
    /\ ~IsReal(answer[1])
    /\ Evaluate(RNeg(arr[1])) = conjugate(answer[1])

\* the shaped spectrum is the spectrum X clamped bin by bin
ClampedFrom(X) ==
    \A k \in Bins :
        /\ spectrum[k].den # 0 /\ shaped_pulse[k].den # 0
        /\ AbsGreater(transfer_array[k], scaling_limit)
              => spectrum[k] = CDiv(X[k], transfer_array[k])
        /\ ~AbsGreater(transfer_array[k], scaling_limit)
              => spectrum[k] = Zero

\* C3: a bin of the shaped spectrum is P[k] / H[k] where |H[k]| >
\* scaling_limit and exactly 0 where |H[k]| <= scaling_limit (equality and
\* H[k] = 0 included): no bin is the result of a division by such a gain,
\* and no nan appears.
C3_StabilityClamp ==
    Shaped => ClampedFrom(P)

\* C3 happens: one spectrum holds a divided bin, a bin dropped at a gain of
\* 0 and a bin dropped at a gain of magnitude equal to scaling_limit, the
\* pulse's own spectrum being non-zero in each.
C3_Witness ==
    /\ Shaped
    /\ \E i, j, k \in Bins :
          /\ P[i] # Zero /\ P[j] # Zero /\ P[k] # Zero
          /\ transfer_array[i] = Zero /\ spectrum[i] = Zero
          /\ transfer_array[j] = CReal(scaling_limit) /\ spectrum[j] = Zero
          /\ AbsGreater(transfer_array[k], scaling_limit)
          /\ spectrum[k] # Zero /\ spectrum[k] # P[k]

\* C4 as claimed: a shape_pulse call on a pulse and a time axis of
\* different lengths ends in an error and returns no shaped pulse.
C4_Original ==
    pc = "shaped" /\ Len(pulse) # Len(time_int)
        => raised # "" /\ shaped_pulse = None

\* C4 amended: shape_pulse never compares the two lengths; it reads only
\* the first two stamps of the time axis.  On a time axis of fewer than 2
\* stamps it ends in an IndexError and returns nothing; on any longer one,
\* of the pulse's length or not, it returns a shaped pulse of as many
\* samples as the pulse, computed on the bins of spacing
\* 1 / (len(pulse) * (time_int[1] - time_int[0])).
C4_NoLengthCheck ==
    pc = "shaped" =>
        /\ Len(time_int) < 2 => raised = "IndexError" /\ shaped_pulse = None
        /\ Len(time_int) >= 2
              => /\ raised = ""
                 /\ Len(shaped_pulse) = Len(pulse)
                 /\ freqs[2] = RDiv(RInt(IF Len(pulse) = 2 THEN -1 ELSE 1),
                                    RMul(RInt(Len(pulse)),
                                         RSub(time_int[2], time_int[1])))

\* C4 happens: a pulse of 4 samples on a time axis of 2 stamps is shaped.
C4_Witness ==
    /\ pc = "shaped" /\ raised = ""
    /\ Len(pulse) = 4 /\ Len(time_int) = 2
    /\ Len(shaped_pulse) = 4 /\ shaped_pulse # pulse

\* C5 as claimed: the tuple is (model, lower_limit, upper_limit): its second
\* element is the first sample frequency, its third the last, second < third.
C5_Original ==
    pc = "built"
        => /\ made[2] = swept_fs[1]
           /\ made[3] = swept_fs[Len(swept_fs)]
           /\ RLt(made[2], made[3])

\* C5 amended: the tuple is (model, upper_limit, lower_limit) in that order:
\* its second element is the last sample frequency and its third the first,
\* so for strictly increasing frequencies the second is greater than the
\* third.
C5_ReturnOrder ==
    pc = "built"
        => /\ Len(made) = 3 /\ made[1] = "full_transfer_func"
           /\ made[2] = swept_fs[Len(swept_fs)] /\ made[2] = upper_limit
           /\ made[3] = swept_fs[1] /\ made[3] = lower_limit
           /\ RLt(made[3], made[2])

\* C5 happens: a sweep from 1 to 2 GHz returns (model, 2, 1).
C5_Witness ==
    /\ pc = "built"
    /\ swept_fs = <<RInt(1), RInt(2)>>
    /\ made = <<"full_transfer_func", RInt(2), RInt(1)>>

SampleIndex == 1..Len(swept_fs)

\* C6 as claimed: for every sample (f_i, r_i), f_i = 0 included,
\* evaluate(f_i) = r_i and evaluate(-f_i) = conjugate(r_i).
C6_Original ==
    Evaluated =>
        \A i \in SampleIndex :
            /\ arr[1] = swept_fs[i] => answer[1] = s21[i]
            /\ arr[1] = RNeg(swept_fs[i]) => answer[1] = conjugate(s21[i])

\* C6 amended: for every sample (f_i, r_i), the boundary samples included,
\* evaluate(f_i) = r_i, and evaluate(-f_i) = conjugate(r_i) when f_i > 0; no
\* sample frequency is forced to zero.  (For a sample at f_i = 0, -f_i is
\* f_i and evaluate returns r_i, not its conjugate.)  The gain of a bin of
\* shape_pulse that falls on a sample frequency is that sample's response.
C6_InterpolationFidelity ==
    /\ Evaluated =>
          \A i \in SampleIndex :
              /\ arr[1] = swept_fs[i] => answer[1] = s21[i]
              /\ arr[1] = RNeg(swept_fs[i]) /\ RLt(RInt(0), swept_fs[i])
                    => answer[1] = conjugate(s21[i])
    /\ Shaped =>
          \A i \in SampleIndex : \A k \in Bins :
              /\ freqs[k] = swept_fs[i] => transfer_array[k] = s21[i]
              /\ freqs[k] = RNeg(swept_fs[i]) /\ RLt(RInt(0), swept_fs[i])
                    => transfer_array[k] = conjugate(s21[i])

\* C6 happens: the negative of the last sample frequency evaluates to the
\* conjugate of a non-real last response.
C6_Witness ==
    /\ Evaluated
    /\ arr[1] = RNeg(upper_limit)
    /\ ~IsReal(s21[Len(s21)])
    /\ answer[1] = conjugate(s21[Len(s21)])

\* C7: when the transfer function is 1 at every bin and scaling_limit < 1,
\* no bin is dropped, the shaped spectrum is the pulse's spectrum and
\* shape_pulse returns the pulse; a returned shaped pulse always has as many
\* samples as the pulse.
C7_IdentityChannel ==
    Shaped =>
        /\ Len(shaped_pulse) = Len(pulse)
        /\ (\A k \in Bins : transfer_array[k] = One)
             /\ RLt(scaling_limit, RInt(1))
              => spectrum = P /\ shaped_pulse = pulse

\* C7 happens: a non-zero pulse of 3 samples through gains that are all 1.
C7_Witness ==
    /\ Shaped
    /\ Len(pulse) = 3 /\ pulse[2] = One /\ pulse[3] = Zero
    /\ \A k \in Bins : transfer_array[k] = One
    /\ shaped_pulse = pulse

\* C8: make_transfer_func on frequencies that are fewer than 2, hold a
\* duplicate or are not strictly increasing ends in an error, and returns
\* neither a callable nor limits.
C8_ConstructionError ==
    pc # "start"
      /\ (Len(swept_fs) < 2
            \/ \E i, j \in SampleIndex : i < j /\ RLe(swept_fs[j], swept_fs[i]))
        => /\ pc = "failed" /\ raised = "ValueError"
           /\ made = None /\ transfer_func = None
           /\ upper_limit = None /\ lower_limit = None

\* C8 happens: three frequencies whose last repeats the second.
C8_Witness ==
    /\ pc = "failed" /\ raised = "ValueError"
    /\ Len(swept_fs) = 3
    /\ RLt(swept_fs[1], swept_fs[2]) /\ swept_fs[2] = swept_fs[3]
    /\ made = None

\* C9: inside the measured band, lower_limit <= |f| <= upper_limit, the
\* zero override does not fire: evaluate(f) is the spline at f for f >= 0
\* and the conjugate of the spline at -f for f < 0; the value is forced to
\* zero exactly outside the band.
C9_InBandUntouched ==
    Evaluated =>
        /\ InBand(arr[1]) /\ RLe(RInt(0), arr[1])
              => answer[1] = SplineValue(transfer_func.x, transfer_func.y, arr[1])
        /\ InBand(arr[1]) /\ RLt(arr[1], RInt(0))
              => answer[1] = conjugate(SplineValue(transfer_func.x,
                                                   transfer_func.y, RNeg(arr[1])))
        /\ out_of_bounds(arr[1], upper_limit, lower_limit) <=> ~InBand(arr[1])

\* C9 happens: with a sweep that starts above 0, the frequency -lower_limit
\* keeps its non-zero value.
C9_Witness ==
    /\ Evaluated
    /\ RLt(RInt(0), lower_limit)
    /\ arr[1] = RNeg(lower_limit)
    /\ answer[1] = conjugate(s21[1]) /\ answer[1] # Zero

\* ceil(n / 2)
HalfUp(n) == (n + 1) \div 2

\* C10: for a pulse of n samples of spacing dt, bin k's gain is the transfer
\* function at k/(n*dt) for k < ceil(n/2) and at (k-n)/(n*dt) from there on;
\* the gains, the shaped spectrum and the pulse's spectrum are aligned index
\* by index.
C10_BinAlignment ==
    Shaped =>
        /\ Len(freqs) = Len(pulse) /\ Len(transfer_array) = Len(pulse)
        /\ Len(spectrum) = Len(pulse)
        /\ \A k \in 0..(Len(pulse) - 1) :
              /\ freqs[k + 1] =
                    RDiv(RInt(IF k < HalfUp(Len(pulse)) THEN k ELSE k - Len(pulse)),
                         RMul(RInt(Len(pulse)), RSub(time_int[2], time_int[1])))
              /\ transfer_array[k + 1] = Evaluate(freqs[k + 1])

\* C10 happens: the pulse [1,0,0,0] at dt = 1/4 ns over the samples (0, 1),
\* (1, 0.5), (2, 0.01) at scaling_limit 0.1: the bins are 0, 1, -2, -1 GHz,
\* bin 2 is zeroed and bins 0, 1, 3 are divided.
C10_Witness ==
    /\ Shaped
    /\ swept_fs = <<RInt(0), RInt(1), RInt(2)>>
    /\ s21 = <<One, CReal(<<1, 2>>), CReal(<<1, 100>>)>>
    /\ pulse = <<One, Zero, Zero, Zero>>
    /\ RSub(time_int[2], time_int[1]) = <<1, 4>>
    /\ scaling_limit = <<1, 10>>
    /\ freqs = <<RInt(0), RInt(1), RInt(-2), RInt(-1)>>
    /\ transfer_array = <<One, CReal(<<1, 2>>), CReal(<<1, 100>>), CReal(<<1, 2>>)>>
    /\ spectrum = <<One, CReal(<<2, 1>>), Zero, CReal(<<2, 1>>)>>

====
